---- MODULE Spec2Model ----
(***************************************************************************)
(* A model of GLUtil (src/src/GLUtil.ts): deepClone over a heap of         *)
(* JavaScript objects, the invocation of a cloned function, and the        *)
(* string helpers padLeft and colorToCssSharp.                             *)
(*                                                                         *)
(* A JavaScript value is a record [t, v]: t is its runtime type tag and v  *)
(* a number that identifies it among the values of that tag (for a         *)
(* reference, the index of the object in the heap).  The heap is the       *)
(* sequence of the objects allocated so far.                               *)
(***************************************************************************)
EXTENDS Integers, Sequences, FiniteSets, TLC

\* Bounds of the model.
MaxDepth == 2
MaxLen == 2
MaxStr == 3

\* The call-stack capacity of the host, in deepClone frames.  An acyclic value
\* of containers nested at most MaxDepth deep needs at most MaxDepth + 1
\* frames, so only a recursion through a cycle exceeds it.
StackLimit == MaxDepth + 1

---------------------------------------------------------------------------
\* Values.

Undefined == [t |-> "undefined", v |-> 0]
Null == [t |-> "null", v |-> 0]
Bool(b) == [t |-> "boolean", v |-> IF b THEN 1 ELSE 0]
Num(n) == [t |-> "number", v |-> n]
Str(n) == [t |-> "string", v |-> n]
\* A value none of deepClone's branches recognises (typeof "symbol").
Sym(n) == [t |-> "symbol", v |-> n]
Ref(i) == [t |-> "ref", v |-> i]

IsRef(x) == x.t = "ref"

\* The value written by the mutations that follow a clone.
Mark == Num(7)

\* An object of the heap.  kind: "array", "map", "set", "function", "object".
\*   items    the elements (array), the values (map), the members (set), the
\*            values of the own enumerable properties (function, object)
\*   keys     the keys (map), the own enumerable property names (function,
\*            object), in insertion order; empty for array and set
\*   hop      typeof o.hasOwnProperty === "function"
\*   inhKeys, inhItems   the enumerable properties o inherits from its
\*            prototype chain
\*   target   for the function deepClone creates, the function it forwards to
\*            (the closure variable sourceFunctionObject); 0 for other objects
\*   prototype  the function's prototype property
Blank(kind, hop) ==
    [kind |-> kind, items |-> <<>>, keys |-> <<>>, hop |-> hop,
     inhKeys |-> <<>>, inhItems |-> <<>>, target |-> 0, prototype |-> Undefined]

Range(s) == {s[i] : i \in 1..Len(s)}

Max(a, b) == IF a >= b THEN a ELSE b

IndexOf(s, x) == IF x \in Range(s) THEN CHOOSE i \in 1..Len(s) : s[i] = x ELSE 0

KindOf(h, x) == IF IsRef(x) THEN h[x.v].kind ELSE "none"

\* typeof value
typeof(h, x) ==
    IF IsRef(x) THEN (IF h[x.v].kind = "function" THEN "function" ELSE "object")
    ELSE IF x.t = "null" THEN "object"
    ELSE x.t

isUndefinedOrNull(x) == x = Undefined \/ x = Null

isUndefined(x) == x = Undefined

isFunction(h, x) == typeof(h, x) = "function"

---------------------------------------------------------------------------
\* Operations on one object.

\* A push that puts the element first.
unshift(o, x) == [o EXCEPT !.items = <<x>> \o @]

\* array.push(x)
push(o, x) == [o EXCEPT !.items = Append(@, x)]

\* map.set(k, x): an existing key keeps its place, a new key goes last.
MapSet(o, k, x) ==
    IF k \in Range(o.keys)
    THEN [o EXCEPT !.items[IndexOf(o.keys, k)] = x]
    ELSE [o EXCEPT !.keys = Append(@, k), !.items = Append(@, x)]

\* set.add(x)
SetAdd(o, x) == IF x \in Range(o.items) THEN o ELSE [o EXCEPT !.items = Append(@, x)]

\* o[k] = x
PutProp(o, k, x) ==
    IF k \in Range(o.keys)
    THEN [o EXCEPT !.items[IndexOf(o.keys, k)] = x]
    ELSE [o EXCEPT !.keys = Append(@, k), !.items = Append(@, x)]

\* o.hasOwnProperty(k), for the standard hasOwnProperty
hasOwnProperty(o, k) == k \in Range(o.keys)

\* The keys "for (var key in o)" visits: the own enumerable ones, then the
\* inherited enumerable ones that no own property shadows.
ForInKeys(o) == o.keys \o SelectSeq(o.inhKeys, LAMBDA k : k \notin Range(o.keys))

\* o[k]
GetProp(o, k) ==
    IF k \in Range(o.keys) THEN o.items[IndexOf(o.keys, k)]
    ELSE IF k \in Range(o.inhKeys) THEN o.inhItems[IndexOf(o.inhKeys, k)]
    ELSE Undefined

\* An object branch that filters with hasOwnProperty on neither path.
ObjectKeysUnfiltered(o) == ForInKeys(o)

\* The keys the object branch copies: lines 192-202.
ObjectKeysCopied(o) ==
    IF o.hop
    THEN SelectSeq(ForInKeys(o), LAMBDA k : hasOwnProperty(o, k))
    ELSE ForInKeys(o)

\* The keys the function branch copies: lines 182-186.
FunctionKeysCopied(o) == SelectSeq(ForInKeys(o), LAMBDA k : hasOwnProperty(o, k))

---------------------------------------------------------------------------
\* deepClone.  The result of a call is [heap, val, threw, depth]: the heap
\* after the call, the value returned, whether the call ended in the host's
\* stack-overflow error instead of returning, and the deepest frame reached
\* (the frame of the outermost call is 1).

Returned(h, x, d) == [heap |-> h, val |-> x, threw |-> FALSE, depth |-> d]

StackOverflow(h, d) == [heap |-> h, val |-> Undefined, threw |-> TRUE, depth |-> d]

\* A test that forgets the strings.
ReturnedAsIsNoString(x) ==
    \/ x = Undefined \/ x = Null \/ x = Bool(TRUE) \/ x = Bool(FALSE)
    \/ x.t = "number"

\* Lines 144-149: the values returned as they are.
ReturnedAsIs(x) ==
    \/ x = Undefined \/ x = Null \/ x = Bool(TRUE) \/ x = Bool(FALSE)
    \/ x.t = "string" \/ x.t = "number"

\* A fall-through that raises instead of returning.
UnrecognizedRaises(h, d) == [heap |-> h, val |-> Undefined, threw |-> TRUE, depth |-> d]

\* Line 205: no branch matched.
Unrecognized(h, d) == Returned(h, Undefined, d)

RECURSIVE deepClone(_, _, _)
RECURSIVE ArrayLoop(_, _, _, _, _)
RECURSIVE ObjectLoop(_, _, _, _, _, _)
RECURSIVE MapForEach(_, _, _, _)
RECURSIVE SetForEach(_, _, _, _)
RECURSIVE FunctionLoop(_, _, _, _, _)

\* A loop that copies the elements as they are, without cloning them.
ArrayLoopShallow(h, id, src, i, d) ==
    Returned([h EXCEPT ![id].items = h[src].items], Ref(id), d)

\* Lines 153-156: tmpArray is object id, sourceObject is object src, and i
\* counts from 0 as in the code (element i is items[i + 1]).
ArrayLoop(h, id, src, i, d) ==
    IF ~(i < Len(h[src].items)) THEN Returned(h, Ref(id), d)
    ELSE LET r == deepClone(h, h[src].items[i + 1], d + 1)
         IN  IF r.threw THEN r
             ELSE LET h2 == [r.heap EXCEPT ![id] = push(@, r.val)]
                      rest == ArrayLoop(h2, id, src, i + 1, d)
                  IN  [rest EXCEPT !.depth = Max(r.depth, rest.depth)]

\* Lines 161-163: newMap is object id.
MapForEach(h, id, src, i) ==
    IF i > Len(h[src].keys) THEN h
    ELSE MapForEach([h EXCEPT ![id] = MapSet(@, h[src].keys[i], h[src].items[i])],
                    id, src, i + 1)

\* Lines 168-170: newSet is object id.
SetForEach(h, id, src, i) ==
    IF i > Len(h[src].items) THEN h
    ELSE SetForEach([h EXCEPT ![id] = SetAdd(@, h[src].items[i])], id, src, i + 1)

\* Lines 182-186: fn is object id.
FunctionLoop(h, id, src, ks, i) ==
    IF i > Len(ks) THEN h
    ELSE FunctionLoop([h EXCEPT ![id] = PutProp(@, ks[i], GetProp(h[src], ks[i]))],
                      id, src, ks, i + 1)

\* Lines 193-201: newObject is object id, ks the keys to copy.
ObjectLoop(h, id, src, ks, i, d) ==
    IF i > Len(ks) THEN Returned(h, Ref(id), d)
    ELSE LET r == deepClone(h, GetProp(h[src], ks[i]), d + 1)
         IN  IF r.threw THEN r
             ELSE LET h2 == [r.heap EXCEPT ![id] = PutProp(@, ks[i], r.val)]
                      rest == ObjectLoop(h2, id, src, ks, i + 1, d)
                  IN  [rest EXCEPT !.depth = Max(r.depth, rest.depth)]

\* Lines 143-206; d is the frame of this call.  The branches are tried in the
\* order of the code.  A Map or Set object exists only on a host that has Map
\* or Set, so the guards $global.Map !== undefined and $global.Set !==
\* undefined hold whenever the instanceof beside them can.
deepClone(h, sourceObject, d) ==
    IF d > StackLimit THEN StackOverflow(h, d)
    ELSE IF ReturnedAsIs(sourceObject) THEN Returned(h, sourceObject, d)
    ELSE LET id == Len(h) + 1
             kind == KindOf(h, sourceObject)
             src == sourceObject.v
         IN  IF kind = "array"
             THEN ArrayLoop(Append(h, Blank("array", TRUE)), id, src, 0, d)
             ELSE IF kind = "map"
             THEN Returned(MapForEach(Append(h, Blank("map", TRUE)), id, src, 1), Ref(id), d)
             ELSE IF kind = "set"
             THEN Returned(SetForEach(Append(h, Blank("set", TRUE)), id, src, 1), Ref(id), d)
             ELSE IF kind = "function"
             THEN LET fn == [Blank("function", TRUE) EXCEPT
                                !.target = src, !.prototype = h[src].prototype]
                  IN  Returned(FunctionLoop(Append(h, fn), id, src,
                                            FunctionKeysCopied(h[src]), 1), Ref(id), d)
             ELSE IF kind = "object"
             THEN ObjectLoop(Append(h, Blank("object", FALSE)), id, src,
                             ObjectKeysCopied(h[src]), 1, d)
             ELSE Unrecognized(h, d)

---------------------------------------------------------------------------
\* Calling a function: lines 176-180.  A call of a function written by the
\* program is recorded as [fn, this, args]; what it returns is a function of
\* the three, here the record itself tagged as a value of the call.

CallOf(f, thisArg, arguments) == [fn |-> f, this |-> thisArg, args |-> arguments]

RECURSIVE apply(_, _, _, _)

\* A forwarding call that loses the receiver.
ForwardUnbound(h, f, this, arguments) == apply(h, h[f].target, Undefined, arguments)

\* The function deepClone returns, called with this and arguments: line 178.
Forward(h, f, this, arguments) == apply(h, h[f].target, this, arguments)

\* f.apply(thisArg, arguments): the calls made, in order, and the value returned.
apply(h, f, thisArg, arguments) ==
    IF h[f].target = 0
    THEN [calls |-> <<CallOf(f, thisArg, arguments)>>, ret |-> CallOf(f, thisArg, arguments)]
    ELSE Forward(h, f, thisArg, arguments)

---------------------------------------------------------------------------
\* Strings are sequences of one-character strings.

Min(a, b) == IF a <= b THEN a ELSE b

\* s.substring(start, end): both indices are clamped to 0..s.length and
\* swapped when start > end; the characters start .. end - 1 are returned.
substring(s, start, end) ==
    LET a == Min(Max(start, 0), Len(s))
        b == Min(Max(end, 0), Len(s))
    IN  SubSeq(s, Min(a, b) + 1, Max(a, b))

RECURSIVE PadLoop(_, _, _)

\* Lines 276-278
PadLoop(s, n, p) == IF Len(s) < n THEN PadLoop(p \o s, n, p) ELSE s

\* Lines 275-283
padLeft(s, n, p) ==
    LET padded == PadLoop(s, n, p)
    IN  IF Len(padded) > n
        THEN substring(padded, Len(padded) - n, Len(padded) - 1)
        ELSE padded

\* A number argument is written as its two 16-bit halves, [hi, lo] for
\* hi * 2^16 + lo, so that the unsigned colours above 2^31 can be written.
Word(hi, lo) == [hi |-> hi, lo |-> lo]

\* color |= 0: the number as a signed 32-bit integer.
ToInt32(n) == (((n.hi + 32768) % 65536) - 32768) * 65536 + n.lo

HexDigit == <<"0", "1", "2", "3", "4", "5", "6", "7", "8", "9", "a", "b", "c", "d", "e", "f">>

RECURSIVE ToHex(_)

\* The hexadecimal digits of n >= 0
ToHex(n) == IF n < 16 THEN <<HexDigit[n + 1]>> ELSE Append(ToHex(n \div 16), HexDigit[(n % 16) + 1])

\* The hexadecimal digits of -n, for n < 0 (computed without negating n, which
\* -2^31 does not allow in 32 bits)
ToHexOfNegated(n) ==
    LET last == (16 - (n % 16)) % 16
        rest == -((n + last) \div 16)
    IN  IF rest = 0 THEN <<HexDigit[last + 1]>> ELSE Append(ToHex(rest), HexDigit[last + 1])

\* n.toString(16)
toString16(n) == IF n < 0 THEN <<"-">> \o ToHexOfNegated(n) ELSE ToHex(n)

\* Lines 261-264
colorToCssSharp(c) == <<"#">> \o padLeft(toString16(ToInt32(c)), 6, <<"0">>)

---------------------------------------------------------------------------
\* The state machine: a heap is built, one value of it is cloned, and the
\* source or the clone is then written to, or the clone is called.

\*   heap          the objects allocated so far
\*   phase         "build", "cloned", "written", "called"; "ready", "padded", "css"
\*   sourceObject  the argument of deepClone
\*   result        what deepClone returned
\*   threw         deepClone ended in a stack overflow
\*   depth         the deepest deepClone frame reached
\*   srcCount      the number of objects when deepClone was called
\*   written       the object written to after the clone (0: none)
\*   receiver, passed   the receiver and the arguments the clone was called with
\*   calls, ret    the calls of program functions that call made, and its value
\*   str, targetLength, padWith   the arguments of padLeft
\*   color         the argument of colorToCssSharp
\*   out           the string padLeft or colorToCssSharp returned
VARIABLES heap, phase, sourceObject, result, threw, depth, srcCount, written,
          receiver, passed, calls, ret, str, targetLength, padWith, color, out

vars == <<heap, phase, sourceObject, result, threw, depth, srcCount, written,
          receiver, passed, calls, ret, str, targetLength, padWith, color, out>>

cloneVars == <<heap, sourceObject, result, threw, depth, srcCount, written,
               receiver, passed, calls, ret>>

padVars == <<str, targetLength, padWith, color, out>>

NoCall == [fn |-> 0, this |-> Undefined, args |-> <<>>]

SeqsUpTo(S, n) == UNION {[1..k -> S] : k \in 0..n}

Distinct(s) == \A i, j \in 1..Len(s) : s[i] = s[j] => i = j

\* The heap is built from the value that will be cloned downwards: object 1
\* is that value, and object n + 1 is the container object n holds, at most
\* MaxDepth deep.  A new object n may hold a number, an unrecognised value,
\* object 1 (which closes a cycle) and object n + 1 (still to be allocated).
Pool(n) == {Num(1), Sym(1), Ref(1)} \cup (IF n < MaxDepth THEN {Ref(n + 1)} ELSE {})

\* The keys of a container of n entries: the strings k_n, ..., k_1.
KeysFor(n) == [i \in 1..n |-> Str(n + 1 - i)]

\* The enumerable properties an object may inherit: k_1 (which an own k_1
\* shadows) and k_0.
InheritedKeys == <<Str(1), Str(0)>>

InheritedItems == <<Num(2), Num(3)>>

\* The contents of object 1: up to MaxLen distinct values.
OuterContents == {xs \in SeqsUpTo(Pool(1), MaxLen) : Distinct(xs)}

\* The contents of a nested object n: nothing or one value.
InnerContents(n) == {<<>>} \cup {<<x>> : x \in Pool(n)}

WithContents(kind, hop, inh, xs) ==
    [Blank(kind, hop) EXCEPT
        !.items = xs,
        !.keys = IF kind \in {"array", "set"} THEN <<>> ELSE KeysFor(Len(xs)),
        !.inhKeys = IF inh THEN InheritedKeys ELSE <<>>,
        !.inhItems = IF inh THEN InheritedItems ELSE <<>>]

\* A map whose keys are the values xs.
KeyedBy(xs) == [Blank("map", TRUE) EXCEPT !.keys = xs, !.items = KeysFor(Len(xs))]

NewObjects(n) ==
    IF n = 1
    THEN {WithContents(kind, TRUE, FALSE, xs) :
              kind \in {"array", "map", "set", "function"}, xs \in OuterContents}
         \cup {KeyedBy(xs) : xs \in OuterContents}
         \cup {WithContents("object", hop, inh, xs) :
                  hop \in BOOLEAN, inh \in BOOLEAN, xs \in OuterContents}
    ELSE {WithContents(kind, TRUE, FALSE, xs) :
              kind \in {"array", "map", "set", "function", "object"},
              xs \in InnerContents(n)}

\* Every reference held in the heap is to an allocated object.
Complete(h) ==
    \A o \in 1..Len(h) : \A x \in Range(h[o].items) \cup Range(h[o].keys) :
        IsRef(x) => x.v <= Len(h)

Primitives ==
    {Undefined, Null, Bool(TRUE), Bool(FALSE), Num(0), Num(1), Str(0), Str(1)}

\* The values deepClone may be called on.
Arguments(h) ==
    (IF Len(h) <= 1 THEN Primitives \cup {Sym(1)} ELSE {})
    \cup (IF Len(h) >= 1 THEN {Ref(1)} ELSE {})

Init ==
    /\ heap = <<>>
    /\ phase = "build"
    /\ sourceObject = Undefined
    /\ result = Undefined
    /\ threw = FALSE
    /\ depth = 0
    /\ srcCount = 0
    /\ written = 0
    /\ receiver = Undefined
    /\ passed = <<>>
    /\ calls = <<>>
    /\ ret = NoCall
    /\ str = <<>>
    /\ targetLength = 0
    /\ padWith = <<"0">>
    /\ color = Word(0, 0)
    /\ out = <<>>

\* The program allocates an object.
Alloc ==
    /\ phase = "build"
    /\ Len(heap) < MaxDepth
    /\ heap = <<>> \/ ~Complete(heap)
    /\ \E o \in NewObjects(Len(heap) + 1) : heap' = Append(heap, o)
    /\ UNCHANGED <<phase, sourceObject, result, threw, depth, srcCount, written,
                   receiver, passed, calls, ret>>
    /\ UNCHANGED padVars

\* Object 1 with one more constituent, object 3, beside object 2: a key if
\* object 2 is a key, else an element, a member or a property value.
WithTwin(o) ==
    IF Ref(2) \in Range(o.keys)
    THEN [o EXCEPT !.keys = Append(@, Ref(3)), !.items = Append(@, Str(Len(o.items) + 1))]
    ELSE IF o.kind \in {"array", "set"}
    THEN [o EXCEPT !.items = Append(@, Ref(3))]
    ELSE [o EXCEPT !.keys = Append(@, Str(Len(o.keys) + 1)), !.items = Append(@, Ref(3))]

\* The program allocates a second container equal to object 2, the one
\* container object 1 holds, and puts it into object 1 beside it: two
\* different containers with the same contents.
Twin ==
    /\ phase = "build"
    /\ Len(heap) = 2
    /\ Complete(heap)
    /\ Len(heap[1].items) < MaxLen
    /\ Ref(2) \in Range(heap[1].items) \cup Range(heap[1].keys)
    /\ heap' = <<WithTwin(heap[1]), heap[2], heap[2]>>
    /\ UNCHANGED <<phase, sourceObject, result, threw, depth, srcCount, written,
                   receiver, passed, calls, ret>>
    /\ UNCHANGED padVars

\* result = GLUtil.deepClone(x)
Clone ==
    /\ phase = "build"
    /\ Complete(heap)
    /\ \E x \in Arguments(heap) :
          LET r == deepClone(heap, x, 1)
          IN  /\ sourceObject' = x
              /\ heap' = r.heap
              /\ result' = r.val
              /\ threw' = r.threw
              /\ depth' = r.depth
    /\ srcCount' = Len(heap)
    /\ phase' = "cloned"
    /\ UNCHANGED <<written, receiver, passed, calls, ret>>
    /\ UNCHANGED padVars

\* A write to container o: push, set, add or a property assignment.
WriteTo(o) ==
    IF o.kind = "array" THEN push(o, Mark)
    ELSE IF o.kind = "map" THEN MapSet(o, Str(1), Mark)
    ELSE IF o.kind = "set" THEN SetAdd(o, Mark)
    ELSE PutProp(o, Str(1), Mark)

\* The program writes to one container after the clone was made.
Mutate ==
    /\ phase = "cloned"
    /\ ~threw
    /\ \E o \in 1..Len(heap) :
          /\ heap' = [heap EXCEPT ![o] = WriteTo(@)]
          /\ written' = o
    /\ phase' = "written"
    /\ UNCHANGED <<sourceObject, result, threw, depth, srcCount, receiver, passed, calls, ret>>
    /\ UNCHANGED padVars

Receivers == {Undefined, Num(1), Ref(1)}

ArgumentLists == {<<>>, <<Num(1)>>, <<Num(1), Num(2)>>, <<Num(2), Num(1)>>}

\* The program calls the clone of a function.
Invoke ==
    /\ phase = "cloned"
    /\ ~threw
    /\ isFunction(heap, result)
    /\ \E this \in Receivers, arguments \in ArgumentLists :
          LET r == Forward(heap, result.v, this, arguments)
          IN  /\ receiver' = this
              /\ passed' = arguments
              /\ calls' = r.calls
              /\ ret' = r.ret
    /\ phase' = "called"
    /\ UNCHANGED <<heap, sourceObject, result, threw, depth, srcCount, written>>
    /\ UNCHANGED padVars

Next == Alloc \/ Twin \/ Clone \/ Mutate \/ Invoke

Spec == Init /\ [][Next]_vars

---------------------------------------------------------------------------
\* The string helpers, on their own: padLeft and colorToCssSharp are applied to
\* arguments drawn from bounded sets.

Chars == {"1", "f"}

\* 0, 0xff, 0xfff, 0xffffff, 0x1000000, 0x1234567, 0x12345678, 0x7fffffff,
\* 0x80000000, 0xffffffff, -1, -255
Colors ==
    {Word(0, 0), Word(0, 255), Word(0, 4095), Word(255, 65535), Word(256, 0),
     Word(291, 17767), Word(4660, 22136), Word(32767, 65535), Word(32768, 0),
     Word(65535, 65535), Word(-1, 65535), Word(-1, 65281)}

InitPad ==
    /\ heap = <<>>
    /\ phase = "ready"
    /\ sourceObject = Undefined
    /\ result = Undefined
    /\ threw = FALSE
    /\ depth = 0
    /\ srcCount = 0
    /\ written = 0
    /\ receiver = Undefined
    /\ passed = <<>>
    /\ calls = <<>>
    /\ ret = NoCall
    /\ str \in SeqsUpTo(Chars, MaxStr)
    /\ targetLength \in 0..MaxStr
    /\ padWith = <<"0">>
    /\ color = Word(0, 0)
    /\ out = <<>>

\* out = GLUtil.padLeft(str, targetLength, padWith)
PadLeft ==
    /\ phase = "ready"
    /\ out' = padLeft(str, targetLength, padWith)
    /\ phase' = "padded"
    /\ UNCHANGED <<str, targetLength, padWith, color>>
    /\ UNCHANGED cloneVars

\* out = GLUtil.colorToCssSharp(c)
ColorToCssSharp ==
    /\ phase = "ready"
    /\ \E c \in Colors :
          /\ color' = c
          /\ out' = colorToCssSharp(c)
    /\ phase' = "css"
    /\ UNCHANGED <<str, targetLength, padWith>>
    /\ UNCHANGED cloneVars

NextPad == PadLeft \/ ColorToCssSharp

SpecPad == InitPad /\ [][NextPad]_vars

---------------------------------------------------------------------------
\* What the properties speak of.

\* The objects a value of object o refers to.
RefsOf(o) ==
    {x.v : x \in {y \in Range(o.items) \cup Range(o.keys) \cup Range(o.inhItems) : IsRef(y)}}

RECURSIVE Closure(_, _)

Closure(h, S) ==
    LET T == S \cup UNION {RefsOf(h[o]) : o \in S}
    IN  IF T = S THEN S ELSE Closure(h, T)

\* The objects reachable from value x.
Reach(h, x) == IF IsRef(x) THEN Closure(h, {x.v}) ELSE {}

\* What can be observed from x: every reachable object, with all it holds.
View(h, x) == [o \in Reach(h, x) |-> h[o]]

\* Object o is reachable from itself.
OnCycle(h, o) == o \in Closure(h, RefsOf(h[o]))

\* No cycle in the reference graph of x.
Acyclic(h, x) == \A o \in Reach(h, x) : ~OnCycle(h, o)

\* x is a container from which x itself is reachable.
SelfReferential(h, x) == IsRef(x) /\ OnCycle(h, x.v)

IsPrimitive(x) == x.t \in {"undefined", "null", "boolean", "number", "string"}

\* A plain keyed record: it exposes its own enumerable properties only.
PlainRecord(o) == o.kind = "object" /\ o.inhKeys = <<>>

\* x is built from primitives, arrays and plain records only, without a cycle.
PlainValue(h, x) ==
    /\ IsPrimitive(x) \/ IsRef(x)
    /\ Acyclic(h, x)
    /\ \A o \in Reach(h, x) :
          /\ h[o].kind = "array" \/ PlainRecord(h[o])
          /\ \A i \in 1..Len(h[o].items) : IsPrimitive(h[o].items[i]) \/ IsRef(h[o].items[i])

RECURSIVE StructurallyEqual(_, _, _)

\* The same primitive, or containers of the same kind with the same elements
\* at the same indices and the same own keys with equal values (for acyclic a).
StructurallyEqual(h, a, b) ==
    IF ~IsRef(a) THEN a = b
    ELSE /\ IsRef(b)
         /\ h[a.v].kind = h[b.v].kind
         /\ IF h[a.v].kind = "array"
            THEN /\ Len(h[a.v].items) = Len(h[b.v].items)
                 /\ \A i \in 1..Len(h[a.v].items) :
                       StructurallyEqual(h, h[a.v].items[i], h[b.v].items[i])
            ELSE /\ Range(h[a.v].keys) = Range(h[b.v].keys)
                 /\ Len(h[a.v].keys) = Len(h[b.v].keys)
                 /\ \A k \in Range(h[a.v].keys) :
                       StructurallyEqual(h, GetProp(h[a.v], k), GetProp(h[b.v], k))

RECURSIVE NestingDepth(_, _)

\* 1 for a primitive and for an empty container, one more than the deepest
\* constituent for a container (for acyclic x).  The constituents of a record
\* are the values of the properties the object branch visits.
NestingDepth(h, x) ==
    IF ~IsRef(x) THEN 1
    ELSE LET o == h[x.v]
             parts == IF o.kind = "object"
                      THEN {GetProp(o, k) : k \in Range(ObjectKeysCopied(o))}
                      ELSE Range(o.items) \cup Range(o.keys)
             ds == {NestingDepth(h, y) : y \in parts}
         IN  IF ds = {} THEN 1 ELSE 1 + (CHOOSE m \in ds : \A n \in ds : n <= m)

\* Constituent b of the clone stands where constituent a of the source stands:
\* the same primitive, undefined for an unrecognised value, a container of the
\* same kind and size for a container.
Corresponds(h, a, b) ==
    IF IsRef(a)
    THEN /\ IsRef(b)
         /\ h[a.v].kind = h[b.v].kind
         /\ Len(h[a.v].items) = Len(h[b.v].items)
    ELSE IF IsPrimitive(a) THEN b = a
    ELSE b = a \/ b = Undefined

Cloned == phase = "cloned"

Source == heap[sourceObject.v]

Copy == heap[result.v]

---------------------------------------------------------------------------
\* The properties.

\* C1: after deepClone of a container (of an acyclic one, so that a deep
\* clone exists), a write to any container reachable from the clone changes
\* nothing observable from the source, and a write to any container reachable
\* from the source changes nothing observable from the clone.
C1_Independence ==
    [][(phase = "cloned" /\ phase' = "written" /\ IsRef(sourceObject)
          /\ Acyclic(heap, sourceObject)) =>
          /\ written' \in Reach(heap, result) =>
                View(heap', sourceObject) = View(heap, sourceObject)
          /\ written' \in Reach(heap, sourceObject) =>
                View(heap', result) = View(heap, result)]_vars

\* C2: the clone of an acyclic value built from primitives, arrays and plain
\* records is structurally equal to it, and every container of the clone is
\* an object allocated by the call, none of them reachable from the source.
C2_StructuralCopy ==
    (Cloned /\ PlainValue(heap, sourceObject)) =>
        /\ ~threw
        /\ StructurallyEqual(heap, sourceObject, result)
        /\ \A o \in Reach(heap, result) : o > srcCount
        /\ Reach(heap, result) \cap Reach(heap, sourceObject) = {}

\* C2 witness: an array or record holding a non-empty array or record was cloned.
C2_Witness ==
    /\ Cloned /\ IsRef(sourceObject) /\ PlainValue(heap, sourceObject) /\ IsRef(result)
    /\ \E i \in 1..Len(Source.items) :
          /\ IsRef(Source.items[i])
          /\ Len(heap[Source.items[i].v].items) > 0
          /\ Copy.items[i] # Source.items[i]

\* C3: the clone of a function (of an acyclic one) carries the function's own
\* enumerable property keys, and under each key whose value is a container a
\* clone of that container: an object allocated by the call, not the source's
\* object.
C3_FunctionPropertiesCloned ==
    (Cloned /\ KindOf(heap, sourceObject) = "function" /\ Acyclic(heap, sourceObject)) =>
        /\ Copy.keys = Source.keys
        /\ \A k \in Range(Source.keys) :
              IsRef(GetProp(Source, k)) =>
                  /\ IsRef(GetProp(Copy, k))
                  /\ GetProp(Copy, k).v > srcCount

\* C4: a call of the clone of function f with receiver R and arguments A
\* calls f exactly once, with receiver R and arguments A, and returns what
\* that call returns.
C4_Forwarding ==
    phase = "called" =>
        /\ calls = <<CallOf(sourceObject.v, receiver, passed)>>
        /\ ret = CallOf(sourceObject.v, receiver, passed)

\* C4 witness: the clone was called with a receiver and two arguments.
C4_Witness ==
    /\ phase = "called" /\ receiver = Num(1) /\ passed = <<Num(2), Num(1)>>
    /\ Len(calls) = 1 /\ calls[1].fn = sourceObject.v /\ result # sourceObject

\* C5: deepClone of undefined, null, a boolean, a number or a string returns
\* that very value from its first frame, raises nothing and allocates nothing.
C5_PrimitiveIdentity ==
    (Cloned /\ IsPrimitive(sourceObject)) =>
        /\ result = sourceObject
        /\ ~threw
        /\ heap = SubSeq(heap, 1, srcCount)
        /\ depth = 1

\* C5 witness: a string was cloned while the heap held an object.
C5_Witness ==
    Cloned /\ sourceObject = Str(1) /\ result = Str(1) /\ srcCount = 1

\* C6: the clone of an array, map or set has as many constituents as the
\* source, the i-th of the clone corresponds to the i-th of the source, and
\* the clone of a map or set holds no key or member twice.
C6_OrderAndCardinality ==
    (Cloned /\ ~threw /\ KindOf(heap, sourceObject) \in {"array", "map", "set"}) =>
        /\ Copy.kind = Source.kind
        /\ Len(Copy.items) = Len(Source.items)
        /\ Len(Copy.keys) = Len(Source.keys)
        /\ \A i \in 1..Len(Source.items) : Corresponds(heap, Source.items[i], Copy.items[i])
        /\ \A i \in 1..Len(Source.keys) : Corresponds(heap, Source.keys[i], Copy.keys[i])
        /\ Distinct(Copy.keys)
        /\ Copy.kind = "set" => Distinct(Copy.items)

\* C6 witness: a map with two keys that are different containers of equal
\* contents was cloned, and the clone has the two entries.
C6_Witness ==
    /\ Cloned /\ ~threw /\ KindOf(heap, sourceObject) = "map"
    /\ Source.keys = <<Ref(2), Ref(3)>> /\ heap[2] = heap[3]
    /\ Len(Copy.keys) = 2 /\ Copy.keys[1] # Copy.keys[2]

C9_TerminationAndDepth ==
    (Cloned /\ IsRef(sourceObject)) =>
        /\ Acyclic(heap, sourceObject) =>
              (~threw /\ depth = NestingDepth(heap, sourceObject))
        /\ SelfReferential(heap, sourceObject) => threw

\* C10: padLeft returns a string of exactly targetLength characters (the
\* last targetLength characters of a longer str, the padding followed by a
\* shorter one), and colorToCssSharp returns "#" and six characters.
C10_PadLength ==
    /\ phase = "padded" =>
          /\ Len(out) = targetLength
          /\ Len(str) >= targetLength =>
                out = SubSeq(str, Len(str) - targetLength + 1, Len(str))
          /\ Len(str) < targetLength =>
                /\ SubSeq(out, targetLength - Len(str) + 1, targetLength) = str
                /\ \A i \in 1..(targetLength - Len(str)) : out[i] = padWith[1]
    /\ phase = "css" => (Len(out) = 7 /\ out[1] = "#")

====
